---- MODULE Spec2Model ----
(***************************************************************************)
(* The psycopg2 migration scripts of scripts/:                             *)
(*   run-migration.py                    fix_foreign_key_constraint        *)
(*   migrations/run_health_check_migration.py  run_health_check_migration  *)
(*   run-cv-migration.py                 run_cv_migration                  *)
(*   run-onboarding-migration.py         run_onboarding_migration          *)
(* run against one PostgreSQL database.  The database is a committed       *)
(* schema-and-data record `db` and the working copy `tx` of the open       *)
(* transaction of the script's connection (psycopg2 opens a transaction at *)
(* the first execute and keeps it until commit or rollback; DDL is         *)
(* transactional in PostgreSQL).                                           *)
(* setup-database.py (setup_database, statements sent one by one through   *)
(* the Neon client) is specified by SpecSetup, the length check on a wider *)
(* range of values by SpecLength, and fix_foreign_key_constraint beside a  *)
(* concurrent writer by SpecConcurrent.                                    *)
(***************************************************************************)
EXTENDS Integers, Sequences, FiniteSets, TLC

\* ------------------------------------------------------------------ bounds
MaxJaRows == 2      \* rows of job_analysis in an initial database
MaxResRows == 1     \* rows of resumes in an initial database
MaxRuns == 2        \* script invocations in one behaviour

\* ------------------------------------------------------- program constants
VarcharLimit == 255 \* VARCHAR(255): run-migration.py:77 and :89

\* ------------------------------------------------------------------ values
\* A text value is abstracted to its identity and its character length.
NULL == [key |-> 0, len |-> 0]
UserIdVals == { [key |-> 1, len |-> 36],
                [key |-> 2, len |-> VarcharLimit],
                [key |-> 3, len |-> VarcharLimit + 1] }
IsNull(v) == v = NULL
CHAR_LENGTH(v) == v.len

NoVal == "NULL"     \* SQL NULL in the kind / processing_status columns

Min(S) == CHOOSE x \in S : \A y \in S : x <= y
Max(S) == CHOOSE x \in S : \A y \in S : y <= x

\* ------------------------------------------------------------------ names
RequiredTables == {"users_sync", "job_analysis", "resumes"}
CvTables == {"cv_versions", "cv_variants", "cv_changelog"}
HcTable == "resume_health_checks"
HcIndexes == { "idx_resume_health_checks_email",
               "idx_resume_health_checks_file_hash",
               "idx_resume_health_checks_status",
               "idx_resume_health_checks_created_at" }
HcTrigger == "update_resume_health_checks_updated_at"
TriggerFunction == "update_updated_at_column"
JaFkNames == {"fk_job_analysis_user_id", "job_analysis_user_id_fkey"}
ResFk == "resumes_user_id_fkey"
MasterColumns == { "kind", "processing_status", "processing_error",
                   "parsed_sections", "extracted_at", "source_metadata" }
Functions == {"fk", "hc", "cv", "ob"}

\* setup-database.py: the tables it creates besides RequiredTables, the
\* indexes it creates besides those run-migration.py also creates (each with
\* its table), and the tables that get an updated_at trigger.
SdOtherTables == { "optimized_resumes", "user_profiles", "job_applications",
                   "clerk_webhook_events" }
SdIndexOn ==
    { <<"idx_users_sync_clerk_user_id", "users_sync">>,
      <<"idx_users_sync_email", "users_sync">>,
      <<"idx_users_sync_deleted_at", "users_sync">>,
      <<"idx_resumes_is_primary", "resumes">>,
      <<"idx_resumes_deleted_at", "resumes">>,
      <<"idx_job_analysis_keywords", "job_analysis">>,
      <<"idx_job_analysis_required_skills", "job_analysis">>,
      <<"idx_optimized_resumes_user_id", "optimized_resumes">>,
      <<"idx_optimized_resumes_original_resume_id", "optimized_resumes">>,
      <<"idx_optimized_resumes_job_analysis_id", "optimized_resumes">>,
      <<"idx_user_profiles_clerk_user_id", "user_profiles">>,
      <<"idx_user_profiles_user_id", "user_profiles">>,
      <<"idx_job_applications_user_id", "job_applications">>,
      <<"idx_job_applications_resume_id", "job_applications">>,
      <<"idx_clerk_webhook_events_event_type", "clerk_webhook_events">>,
      <<"idx_clerk_webhook_events_user_id", "clerk_webhook_events">>,
      <<"idx_clerk_webhook_events_created_at", "clerk_webhook_events">> }
SdIndexes == { p[1] : p \in SdIndexOn }
SdTableOf(i) == (CHOOSE p \in SdIndexOn : p[1] = i)[2]
SdTriggerOn ==
    { <<"trigger_users_sync", "users_sync">>,
      <<"trigger_resumes", "resumes">>,
      <<"trigger_job_applications", "job_applications">>,
      <<"trigger_job_analysis", "job_analysis">>,
      <<"trigger_optimized_resumes", "optimized_resumes">>,
      <<"trigger_user_profiles", "user_profiles">> }
SdTriggers == { p[1] : p \in SdTriggerOn }
SdTriggerTable(g) == (CHOOSE p \in SdTriggerOn : p[1] = g)[2]

\* ------------------------------------------------------- schema and data
\* A database is a record with the fields
\* tables    : tables of the public schema
\* users     : the values of users_sync.id (a primary key: a set)
\* ja        : job_analysis rows, each reduced to its user_id
\* res       : resumes rows, reduced to user_id, kind, processing_status
\* jaType    : type of job_analysis.user_id;  resType: of resumes.user_id
\* fks       : foreign-key constraints, by name
\* indexes, triggers, functions, comments : by name
\* resCols   : which of MasterColumns resumes has
\* defaults  : DEFAULT of kind and processing_status ("" when none)
\* notnull   : the NOT NULL columns among them
\* usersCols : optional columns of users_sync
OrphansOf(vals, users) == { v \in vals : ~IsNull(v) /\ v \notin users }
Range(f) == { f[i] : i \in DOMAIN f }

\* ---------------------------------------------- queries of the pre-checks
\* run-migration.py:73-78
\*   SELECT COUNT(*), COALESCE(MAX(CHAR_LENGTH(user_id::text)), 0)
\*   FROM job_analysis WHERE CHAR_LENGTH(user_id::text) > 255
\* CHAR_LENGTH(NULL) is NULL and NULL > 255 is not true: the row is dropped.
LengthCheckRowsOff(s) ==
    { i \in DOMAIN s.ja : ~IsNull(s.ja[i]) /\ CHAR_LENGTH(s.ja[i]) >= VarcharLimit }
LengthCheckRows(s) ==
    { i \in DOMAIN s.ja : ~IsNull(s.ja[i]) /\ CHAR_LENGTH(s.ja[i]) > VarcharLimit }
LengthCheckQuery(s) ==
    LET rows == LengthCheckRows(s)
    IN  [ offending_count |-> Cardinality(rows),
          max_len |-> IF rows = {} THEN 0
                      ELSE Max({ CHAR_LENGTH(s.ja[i]) : i \in rows }) ]

\* run-migration.py:93-98
\*   SELECT COUNT(*) FROM job_analysis ja LEFT JOIN users_sync u
\*   ON ja.user_id = u.id WHERE ja.user_id IS NOT NULL AND u.id IS NULL
\* The left join yields <<i, u>> for every match and <<i, NULL>> for a row
\* with no match (NULL = u.id is never true).
LeftJoinUsers(rows, users) ==
    LET matched == { p \in (DOMAIN rows) \X users :
                       ~IsNull(rows[p[1]]) /\ rows[p[1]] = p[2] }
        unmatched == { i \in DOMAIN rows : \A u \in users : <<i, u>> \notin matched }
    IN  matched \cup { <<i, NULL>> : i \in unmatched }
OrphanWhereNoNullFilter(rows, p) == IsNull(p[2])
OrphanWhere(rows, p) == ~IsNull(rows[p[1]]) /\ IsNull(p[2])
OrphanCheckQuery(s) ==
    Cardinality({ p \in LeftJoinUsers(s.ja, s.users) : OrphanWhere(s.ja, p) })

\* --------------------------------------------- PostgreSQL statement effects
\* ALTER TABLE t DROP CONSTRAINT IF EXISTS c   (run-migration.py:67,68,118)
DropConstraintIfExists(s, c) == [s EXCEPT !.fks = @ \ {c}]
\* CREATE INDEX IF NOT EXISTS i ON t(col)
CreateIndexIfNotExists(s, i) == [s EXCEPT !.indexes = @ \cup {i}]
\* ALTER TABLE resumes ADD COLUMN IF NOT EXISTS c <type> [DEFAULT d]: a no-op
\* when the column exists; otherwise every existing row gets the default.
AddColumnIfNotExists(s, c, d) ==
    IF c \in s.resCols THEN s
    ELSE [s EXCEPT !.resCols = @ \cup {c},
                   !.defaults = IF c \in DOMAIN @ THEN [@ EXCEPT ![c] = d] ELSE @,
                   !.res = IF c \in {"kind", "processing_status"}
                           THEN [i \in DOMAIN @ |-> [@[i] EXCEPT ![c] = d]]
                           ELSE @]
\* ALTER TABLE resumes ALTER COLUMN c SET DEFAULT d
SetDefault(s, c, d) == [s EXCEPT !.defaults[c] = d]
\* UPDATE resumes SET c = d WHERE c IS NULL
UpdateWhereNull(s, c, d) ==
    [s EXCEPT !.res = [i \in DOMAIN @ |->
                         IF @[i][c] = NoVal THEN [@[i] EXCEPT ![c] = d] ELSE @[i]]]
\* ALTER TABLE resumes ALTER COLUMN c SET NOT NULL
SetNotNull(s, c) == [s EXCEPT !.notnull = @ \cup {c}]
HasNull(s, c) == \E i \in DOMAIN s.res : s.res[i][c] = NoVal

ResUserIds(s) == { s.res[i].user_id : i \in DOMAIN s.res }

\* The statements that only read (catalog and count queries).
ReadOnly == { "q_users_sync_type", "q_job_analysis_type", "q_constraints",
              "v_users_sync_type", "v_job_analysis_type", "v_constraints",
              "v_print_types", "v_orphans", "v_columns",
              "q_existing_cv_tables", "v_cv_tables", "v_cv_counts",
              "v_cv_indexes", "v_cv_fks", "v_ob_index", "v_ob_stats",
              "v_tables" }

\* Whether PostgreSQL rejects statement st in the transaction's state s.
Fails(st, s) ==
    CASE st \in {"q_users_sync_type", "q_job_analysis_type",
                 "v_users_sync_type", "v_job_analysis_type"} -> FALSE
      [] st \in {"q_constraints", "v_constraints"} ->
             "job_analysis" \notin s.tables     \* 'job_analysis'::regclass
      [] st = "v_print_types" ->                \* users_sync_final[0], :176-177
             \/ "users_sync" \notin s.tables
             \/ "job_analysis" \notin s.tables
      [] st = "v_orphans" ->
             \/ "users_sync" \notin s.tables
             \/ "job_analysis" \notin s.tables
      [] st \in {"drop_fk_job_analysis_user_id", "drop_job_analysis_user_id_fkey",
                 "create_idx_job_analysis_user_id"} ->
             "job_analysis" \notin s.tables
      [] st = "alter_job_analysis_user_id_type" ->
             \/ "job_analysis" \notin s.tables
             \/ \E i \in DOMAIN s.ja : CHAR_LENGTH(s.ja[i]) > VarcharLimit
      [] st = "add_job_analysis_user_id_fkey" ->
             \/ "job_analysis" \notin s.tables
             \/ "users_sync" \notin s.tables
             \/ "job_analysis_user_id_fkey" \in s.fks
             \/ OrphansOf(Range(s.ja), s.users) # {}
      [] st \in {"drop_resumes_user_id_fkey", "alter_resumes_user_id_type",
                 "create_idx_resumes_user_id", "add_col_kind",
                 "add_col_processing_status", "add_col_processing_error",
                 "add_col_parsed_sections", "add_col_extracted_at",
                 "add_col_source_metadata"} ->
             "resumes" \notin s.tables
      [] st = "add_resumes_user_id_fkey" ->
             \/ "resumes" \notin s.tables
             \/ "users_sync" \notin s.tables
             \/ ResFk \in s.fks
             \/ OrphansOf(ResUserIds(s), s.users) # {}
      [] st \in {"set_default_kind", "update_kind", "create_idx_resumes_kind"} ->
             "resumes" \notin s.tables \/ "kind" \notin s.resCols
      [] st \in {"set_default_processing_status", "update_processing_status",
                 "create_idx_resumes_processing_status"} ->
             "resumes" \notin s.tables \/ "processing_status" \notin s.resCols
      [] st = "set_not_null_kind" ->
             "resumes" \notin s.tables \/ "kind" \notin s.resCols \/ HasNull(s, "kind")
      [] st = "set_not_null_processing_status" ->
             \/ "resumes" \notin s.tables
             \/ "processing_status" \notin s.resCols
             \/ HasNull(s, "processing_status")
      [] st = "create_table_resume_health_checks" -> FALSE
      [] st \in HcIndexes \cup {"comment_table", "comment_file_hash",
                                "comment_analysis_result", "comment_status",
                                "v_columns"} ->
             st # "v_columns" /\ HcTable \notin s.tables
      [] st = "create_trigger_resume_health_checks" ->
             HcTable \notin s.tables \/ TriggerFunction \notin s.functions
      [] st \in {"ob_migration_sql", "v_ob_stats"} -> "users_sync" \notin s.tables
      [] st \in {"create_table_resumes", "create_table_job_analysis",
                 "create_table_user_profiles"} ->   \* REFERENCES users_sync(id)
             "users_sync" \notin s.tables
      [] st = "create_table_optimized_resumes" ->
             ~(RequiredTables \subseteq s.tables)
      [] st = "create_table_job_applications" ->
             ~({"users_sync", "resumes"} \subseteq s.tables)
      [] st \in SdIndexes -> SdTableOf(st) \notin s.tables
      [] st \in SdTriggers ->
             \/ SdTriggerTable(st) \notin s.tables
             \/ TriggerFunction \notin s.functions
      [] OTHER -> FALSE

\* The state of the transaction after statement st succeeded in state s.
\* in_ is the content of the script's SQL file, where it reads one.
Effect(st, s, in_) ==
    CASE st \in ReadOnly -> s
      [] st \in {"drop_fk_job_analysis_user_id"} ->
             DropConstraintIfExists(s, "fk_job_analysis_user_id")
      [] st = "drop_job_analysis_user_id_fkey" ->
             DropConstraintIfExists(s, "job_analysis_user_id_fkey")
      [] st = "alter_job_analysis_user_id_type" -> [s EXCEPT !.jaType = "varchar255"]
      [] st = "add_job_analysis_user_id_fkey" ->
             [s EXCEPT !.fks = @ \cup {"job_analysis_user_id_fkey"}]
      [] st = "create_idx_job_analysis_user_id" ->
             CreateIndexIfNotExists(s, "idx_job_analysis_user_id")
      [] st = "drop_resumes_user_id_fkey" -> DropConstraintIfExists(s, ResFk)
      [] st = "alter_resumes_user_id_type" -> [s EXCEPT !.resType = "text"]
      [] st = "add_resumes_user_id_fkey" -> [s EXCEPT !.fks = @ \cup {ResFk}]
      [] st = "create_idx_resumes_user_id" ->
             CreateIndexIfNotExists(s, "idx_resumes_user_id")
      [] st = "add_col_kind" -> AddColumnIfNotExists(s, "kind", "uploaded")
      [] st = "set_default_kind" -> SetDefault(s, "kind", "uploaded")
      [] st = "update_kind" -> UpdateWhereNull(s, "kind", "uploaded")
      [] st = "set_not_null_kind" -> SetNotNull(s, "kind")
      [] st = "add_col_processing_status" ->
             AddColumnIfNotExists(s, "processing_status", "completed")
      [] st = "set_default_processing_status" ->
             SetDefault(s, "processing_status", "completed")
      [] st = "update_processing_status" ->
             UpdateWhereNull(s, "processing_status", "completed")
      [] st = "set_not_null_processing_status" -> SetNotNull(s, "processing_status")
      [] st = "add_col_processing_error" -> AddColumnIfNotExists(s, "processing_error", "")
      [] st = "add_col_parsed_sections" -> AddColumnIfNotExists(s, "parsed_sections", "")
      [] st = "add_col_extracted_at" -> AddColumnIfNotExists(s, "extracted_at", "")
      [] st = "add_col_source_metadata" -> AddColumnIfNotExists(s, "source_metadata", "")
      [] st = "create_idx_resumes_kind" -> CreateIndexIfNotExists(s, "idx_resumes_kind")
      [] st = "create_idx_resumes_processing_status" ->
             CreateIndexIfNotExists(s, "idx_resumes_processing_status")
      [] st = "create_table_resume_health_checks" ->
             [s EXCEPT !.tables = @ \cup {HcTable}]
      [] st \in HcIndexes -> CreateIndexIfNotExists(s, st)
      [] st \in {"comment_table", "comment_file_hash", "comment_analysis_result",
                 "comment_status"} -> [s EXCEPT !.comments = @ \cup {st}]
      [] st = "create_trigger_resume_health_checks" ->
             [s EXCEPT !.triggers = (@ \ {HcTrigger}) \cup {HcTrigger}]
      [] st = "cv_migration_sql" ->
             [s EXCEPT !.tables = @ \cup CvTables]
      [] st = "ob_migration_sql" ->
             IF in_.sql_adds_column
             THEN [s EXCEPT !.usersCols = @ \cup {"onboarding_completed_at"},
                            !.indexes = @ \cup {"idx_users_sync_onboarding"}]
             ELSE s
      [] st = "create_table_users_sync" ->          \* setup-database.py:26-41
             [s EXCEPT !.tables = @ \cup {"users_sync"}]
      [] st = "create_table_resumes" ->             \* :51-72
             IF "resumes" \in s.tables THEN s
             ELSE [s EXCEPT !.tables = @ \cup {"resumes"},
                            !.resType = "varchar255",
                            !.fks = @ \cup {ResFk},
                            !.resCols = MasterColumns,
                            !.defaults = [c \in DOMAIN @ |->
                                            IF c = "kind" THEN "uploaded"
                                            ELSE "completed"],
                            !.notnull = {"kind", "processing_status"}]
      [] st = "create_table_job_analysis" ->        \* :101-119
             IF "job_analysis" \in s.tables THEN s
             ELSE [s EXCEPT !.tables = @ \cup {"job_analysis"},
                            !.jaType = "varchar255",
                            !.fks = @ \cup {"job_analysis_user_id_fkey"}]
      [] st \in {"create_table_optimized_resumes", "create_table_user_profiles",
                 "create_table_job_applications",
                 "create_table_clerk_webhook_events"} ->
             [s EXCEPT !.tables = @ \cup
                 { x \in SdOtherTables : st = "create_table_" \o x }]
      [] st \in SdIndexes -> CreateIndexIfNotExists(s, st)
      [] st = "create_function_update_updated_at_column" ->
             [s EXCEPT !.functions = @ \cup {TriggerFunction}]
      [] st \in SdTriggers ->
             [s EXCEPT !.triggers = @ \cup
                 {"update_" \o SdTriggerTable(st) \o "_updated_at"}]
      [] OTHER -> s

\* ------------------------------------------------------------ the scripts
\* The statements of each function in source order.  "length_check",
\* "orphan_check", "prereq_check" and "v_ob_column" are a query followed by
\* the script's own test of its result; "commit" is conn.commit(); "close" is
\* cursor.close(); conn.close(); the function returns True after the last one.
FkStatements ==
    << "q_users_sync_type", "q_job_analysis_type", "q_constraints",   \* :34-57
       "drop_fk_job_analysis_user_id", "drop_job_analysis_user_id_fkey", \* :67-68
       "length_check",                                                \* :73-86
       "alter_job_analysis_user_id_type",                             \* :89
       "orphan_check",                                                \* :93-104
       "add_job_analysis_user_id_fkey",                               \* :106-110
       "create_idx_job_analysis_user_id",                             \* :114
       "drop_resumes_user_id_fkey", "alter_resumes_user_id_type",     \* :118-119
       "add_resumes_user_id_fkey", "create_idx_resumes_user_id",      \* :120-125
       "add_col_kind", "set_default_kind", "update_kind", "set_not_null_kind",
       "add_col_processing_status", "set_default_processing_status",
       "update_processing_status", "set_not_null_processing_status",  \* :129-137
       "add_col_processing_error", "add_col_parsed_sections",
       "add_col_extracted_at", "add_col_source_metadata",             \* :139-142
       "create_idx_resumes_kind", "create_idx_resumes_processing_status",
       "commit",                                                      \* :147
       "v_users_sync_type", "v_job_analysis_type", "v_constraints",   \* :154-174
       "v_print_types", "v_orphans", "close" >>                       \* :176-195

Executes(plan, st) == \E i \in DOMAIN plan : plan[i] = st
IndexOf(plan, st) == CHOOSE i \in DOMAIN plan : plan[i] = st
Without(plan, sts) ==
    LET keep(st) == st \notin sts IN SelectSeq(plan, keep)
MoveBefore(plan, st, anchor) ==
    LET rest == Without(plan, {st})
        k == IndexOf(rest, anchor)
    IN  SubSeq(rest, 1, k - 1) \o <<st>> \o SubSeq(rest, k, Len(rest))

\* fix_foreign_key_constraint is straight-line code: the statements run in
\* the order they are written.
FkPlanOrphanCheckFirst ==
    MoveBefore(FkStatements, "orphan_check", "alter_job_analysis_user_id_type")
FkPlanIndexFirst ==
    MoveBefore(FkStatements, "create_idx_job_analysis_user_id", "length_check")
FkPlanCommitEarly == MoveBefore(FkStatements, "commit", "orphan_check")
FkPlanNoDrops ==
    Without(FkStatements, {"drop_fk_job_analysis_user_id",
                           "drop_job_analysis_user_id_fkey"})
FkPlanNoSetNotNull == Without(FkStatements, {"set_not_null_kind"})
FkPlan == FkStatements
\* run_health_check_migration's statements in source order.
HcStatements ==
    << "create_table_resume_health_checks",                           \* :40-56
       "idx_resume_health_checks_email",
       "idx_resume_health_checks_file_hash",
       "idx_resume_health_checks_status",
       "idx_resume_health_checks_created_at",                         \* :60-63
       "comment_table", "comment_file_hash", "comment_analysis_result",
       "comment_status",                                              \* :67-70
       "create_trigger_resume_health_checks",                         \* :74-80
       "commit",                                                      \* :83
       "v_columns", "close" >>                                        \* :88-104
HcPlanCommitEarly ==
    MoveBefore(HcStatements, "commit", "create_trigger_resume_health_checks")
HcPlan == HcStatements
CvPlan ==
    << "q_existing_cv_tables",                                        \* :66-73
       "prereq_check",                                                \* :83-99
       "cv_migration_sql",                                            \* :111
       "commit",                                                      \* :112
       "v_cv_tables", "v_cv_counts", "v_cv_indexes", "v_cv_fks",      \* :118-170
       "close" >>                                                     \* :179-180
ObPlan ==
    << "ob_migration_sql",                                            \* :57
       "commit",                                                      \* :60
       "v_ob_column",                                                 \* :67-80
       "v_ob_index", "v_ob_stats",                                    \* :83-104
       "close" >>                                                     \* :112-113
\* setup-database.py: setup_database, one await sql(...) per statement.
SdPlan ==
    << "create_extension_uuid_ossp",                                  \* :22
       "create_table_users_sync",                                     \* :26-41
       "idx_users_sync_clerk_user_id", "idx_users_sync_email",
       "idx_users_sync_deleted_at",                                   \* :45-47
       "create_table_resumes",                                        \* :51-72
       "create_idx_resumes_user_id", "idx_resumes_is_primary",
       "idx_resumes_deleted_at", "create_idx_resumes_kind",
       "create_idx_resumes_processing_status",                        \* :76-80
       "add_col_kind", "set_default_kind", "update_kind", "set_not_null_kind",
       "add_col_processing_status", "set_default_processing_status",
       "update_processing_status", "set_not_null_processing_status",  \* :84-92
       "add_col_processing_error", "add_col_parsed_sections",
       "add_col_extracted_at", "add_col_source_metadata",             \* :94-97
       "create_table_job_analysis",                                   \* :101-119
       "create_idx_job_analysis_user_id", "idx_job_analysis_keywords",
       "idx_job_analysis_required_skills",                            \* :123-125
       "create_table_optimized_resumes",                              \* :129-145
       "idx_optimized_resumes_user_id",
       "idx_optimized_resumes_original_resume_id",
       "idx_optimized_resumes_job_analysis_id",                       \* :149-151
       "create_table_user_profiles",                                  \* :155-169
       "idx_user_profiles_clerk_user_id", "idx_user_profiles_user_id", \* :173-174
       "create_table_job_applications",                               \* :178-192
       "idx_job_applications_user_id", "idx_job_applications_resume_id", \* :196-197
       "create_table_clerk_webhook_events",                           \* :201-211
       "idx_clerk_webhook_events_event_type",
       "idx_clerk_webhook_events_user_id",
       "idx_clerk_webhook_events_created_at",                         \* :215-217
       "create_function_update_updated_at_column",                    \* :221-229
       "trigger_users_sync", "trigger_resumes", "trigger_job_applications",
       "trigger_job_analysis", "trigger_optimized_resumes",
       "trigger_user_profiles",                                       \* :233-245
       "v_tables",                                                    \* :252-261
       "return" >>
PlanOf(f) ==
    CASE f = "sd" -> SdPlan
      [] f = "fk" -> FkPlan
      [] f = "hc" -> HcPlan
      [] f = "cv" -> CvPlan
      [] f = "ob" -> ObPlan

Special == {"length_check", "orphan_check", "prereq_check", "v_ob_column",
            "commit", "close"}

\* ------------------------------------------------------------------ state
VARIABLES
    db,        \* the committed schema and data
    tx,        \* the schema and data seen by the connection's transaction
    pre,       \* db when the current run started
    fn,        \* the function being run
    input,     \* its environment: DATABASE_URL set, SQL file present, content
    phase,     \* "idle", "connect", "body", "except", "except_close", "done"
    pc,        \* index in PlanOf(fn) of the next statement
    conn,      \* "none" (no conn local), "open", "closed"
    executed,  \* the statements handed to cursor.execute / conn in this run
    commits,   \* successful conn.commit() calls of this run
    result,    \* "none", "True", "False", "raised"
    report,    \* the counts the run printed (-1: not printed)
    failedAt,  \* the statement or check that raised, "none" if none did
    envFault,  \* an error not caused by schema or data was raised in this run
    runNo,     \* runs started so far
    prev       \* function, result and committed db of the previous run

vars == << db, tx, pre, fn, input, phase, pc, conn, executed, commits, result,
           report, failedAt, envFault, runNo, prev >>

Cur == PlanOf(fn)[pc]
NoReport == [offending_count |-> -1, max_len |-> -1, orphan_count |-> -1]

\* psycopg2 connections start with autocommit off (run-cv-migration.py:59
\* sets it explicitly): a statement's effect stays in the transaction.
AutocommitOn == TRUE
Autocommit == FALSE
AfterStatement(committed, working) == IF Autocommit THEN working ELSE committed

\* conn.rollback(): the transaction's changes are discarded.
Rollback(committed, working) == committed

\* A raise inside the try block transfers control to the except clause; no
\* statement after it runs.
ContinueOnError(p) == [phase |-> "body", pc |-> p + 1]
OnError(p) == [phase |-> "except", pc |-> p]

Inputs == [url : BOOLEAN, file : BOOLEAN, sql_adds_column : BOOLEAN]
ReadsFile(f) == f \in {"cv", "ob"}

\* ------------------------------------------------------------------ actions
\* A function is called: os.environ.get('DATABASE_URL') and, in the cv and
\* onboarding scripts, os.path.exists(<sql file>).
Begin(f, in_) ==
    /\ phase \in {"idle", "done"}
    /\ runNo < MaxRuns
    /\ phase = "done" => f = fn /\ result = "True"
    /\ ReadsFile(f) \/ (in_.file /\ in_.sql_adds_column)
    /\ f = "ob" \/ in_.sql_adds_column
    /\ fn' = f
    /\ input' = in_
    /\ runNo' = runNo + 1
    /\ prev' = [fn |-> fn, result |-> result, db |-> db, envFault |-> envFault]
    /\ pre' = db
    /\ tx' = db
    /\ conn' = "none"
    /\ executed' = << >>
    /\ commits' = 0
    /\ report' = NoReport
    /\ failedAt' = "none"
    /\ envFault' = FALSE
    /\ pc' = 1
    /\ UNCHANGED db

\* DATABASE_URL is set and the SQL file, if any, exists: go on to connect.
Start(f, in_) ==
    /\ Begin(f, in_)
    /\ in_.url /\ in_.file
    /\ phase' = "connect"
    /\ result' = "none"

\* if not database_url: return False
StartNoUrl(f, in_) ==
    /\ Begin(f, in_)
    /\ ~in_.url
    /\ phase' = "done"
    /\ result' = "False"

\* if not os.path.exists(migration_file): return False
StartNoFile(f, in_) ==
    /\ Begin(f, in_)
    /\ in_.url /\ ~in_.file
    /\ phase' = "done"
    /\ result' = "False"

\* conn = psycopg2.connect(...); cursor = conn.cursor(...)
Connect ==
    /\ phase = "connect"
    /\ conn' = "open"
    /\ phase' = "body"
    /\ UNCHANGED << db, tx, pre, fn, input, pc, executed, commits, result,
                    report, failedAt, envFault, runNo, prev >>

\* psycopg2.connect raises: the except clause runs with no conn.
ConnectFails ==
    /\ phase = "connect"
    /\ phase' = "except"
    /\ envFault' = TRUE
    /\ failedAt' = "connect"
    /\ UNCHANGED << db, tx, pre, fn, input, pc, conn, executed, commits, result,
                    report, runNo, prev >>

Raise(st) ==
    /\ phase' = OnError(pc).phase
    /\ pc' = OnError(pc).pc
    /\ failedAt' = st

\* cursor.execute(<statement>) succeeds.
ExecStmt ==
    /\ phase = "body"
    /\ Cur \notin Special
    /\ ~Fails(Cur, tx)
    /\ tx' = Effect(Cur, tx, input)
    /\ db' = AfterStatement(db, tx')
    /\ executed' = Append(executed, Cur)
    /\ pc' = pc + 1
    /\ UNCHANGED << pre, fn, input, phase, conn, commits, result, report,
                    failedAt, envFault, runNo, prev >>

\* cursor.execute(<statement>) is rejected by the database.
ExecStmtFails ==
    /\ phase = "body"
    /\ Cur \notin Special
    /\ Fails(Cur, tx)
    /\ executed' = Append(executed, Cur)
    /\ Raise(Cur)
    /\ UNCHANGED << db, tx, pre, fn, input, conn, commits, result, report,
                    envFault, runNo, prev >>

\* cursor.execute or conn.commit raises for a reason outside schema and data
\* (connection lost, deadlock, permission).
ExecFault ==
    /\ phase = "body"
    /\ Cur # "close"
    /\ executed' = Append(executed, Cur)
    /\ envFault' = TRUE
    /\ Raise(Cur)
    /\ UNCHANGED << db, tx, pre, fn, input, conn, commits, result, report,
                    runNo, prev >>

\* The database after a SELECT of a pre-check (run-migration.py:73-78,
\* :93-98): the queries only count rows.
SelectEffectDeletes(s) ==
    LET short(v) == CHAR_LENGTH(v) <= VarcharLimit /\ (IsNull(v) \/ v \in s.users)
    IN  [s EXCEPT !.ja = SelectSeq(@, short)]
SelectEffect(s) == s

\* run-migration.py:73-86: the length query, then
\*   if offending_count and offending_count > 0: raise Exception(...)
LengthCheckPass ==
    /\ phase = "body"
    /\ Cur = "length_check"
    /\ LET r == LengthCheckQuery(tx)
       IN  /\ ~(r.offending_count > 0)
           /\ report' = [report EXCEPT !.offending_count = r.offending_count,
                                       !.max_len = r.max_len]
    /\ tx' = SelectEffect(tx)
    /\ executed' = Append(executed, Cur)
    /\ pc' = pc + 1
    /\ UNCHANGED << db, pre, fn, input, phase, conn, commits, result,
                    failedAt, envFault, runNo, prev >>

LengthCheckAbort ==
    /\ phase = "body"
    /\ Cur = "length_check"
    /\ LET r == LengthCheckQuery(tx)
       IN  /\ r.offending_count > 0
           /\ report' = [report EXCEPT !.offending_count = r.offending_count,
                                       !.max_len = r.max_len]
    /\ tx' = SelectEffect(tx)
    /\ executed' = Append(executed, Cur)
    /\ Raise(Cur)
    /\ UNCHANGED << db, pre, fn, input, conn, commits, result, envFault,
                    runNo, prev >>

\* run-migration.py:93-104: the orphan query, the count is printed, then
\*   if orphan_count and orphan_count > 0: raise Exception(...)
OrphanCheckPass ==
    /\ phase = "body"
    /\ Cur = "orphan_check"
    /\ "users_sync" \in tx.tables
    /\ ~(OrphanCheckQuery(tx) > 0)
    /\ report' = [report EXCEPT !.orphan_count = OrphanCheckQuery(tx)]
    /\ tx' = SelectEffect(tx)
    /\ executed' = Append(executed, Cur)
    /\ pc' = pc + 1
    /\ UNCHANGED << db, pre, fn, input, phase, conn, commits, result,
                    failedAt, envFault, runNo, prev >>

OrphanCheckAbort ==
    /\ phase = "body"
    /\ Cur = "orphan_check"
    /\ "users_sync" \in tx.tables
    /\ OrphanCheckQuery(tx) > 0
    /\ report' = [report EXCEPT !.orphan_count = OrphanCheckQuery(tx)]
    /\ tx' = SelectEffect(tx)
    /\ executed' = Append(executed, Cur)
    /\ Raise(Cur)
    /\ UNCHANGED << db, pre, fn, input, conn, commits, result, envFault,
                    runNo, prev >>

\* The orphan query names users_sync: without the table it is rejected.
OrphanCheckFails ==
    /\ phase = "body"
    /\ Cur = "orphan_check"
    /\ "users_sync" \notin tx.tables
    /\ executed' = Append(executed, Cur)
    /\ Raise(Cur)
    /\ UNCHANGED << db, tx, pre, fn, input, conn, commits, result, report,
                    envFault, runNo, prev >>

\* run-cv-migration.py:83-101
MissingTablesUsersOnly(s) == { t \in {"users_sync"} : t \notin s.tables }
MissingTables(s) == { t \in RequiredTables : t \notin s.tables }

PrereqCheckPass ==
    /\ phase = "body"
    /\ Cur = "prereq_check"
    /\ MissingTables(tx) = {}
    /\ executed' = Append(executed, Cur)
    /\ pc' = pc + 1
    /\ UNCHANGED << db, tx, pre, fn, input, phase, conn, commits, result,
                    report, failedAt, envFault, runNo, prev >>

\* if missing_tables: cursor.close(); conn.close(); return False
PrereqCheckAbort ==
    /\ phase = "body"
    /\ Cur = "prereq_check"
    /\ MissingTables(tx) # {}
    /\ executed' = Append(executed, Cur)
    /\ failedAt' = Cur
    /\ conn' = "closed"
    /\ tx' = Rollback(db, tx)
    /\ result' = "False"
    /\ phase' = "done"
    /\ UNCHANGED << db, pre, fn, input, pc, commits, report, envFault, runNo, prev >>

\* conn.commit()
Commit ==
    /\ phase = "body"
    /\ Cur = "commit"
    /\ db' = tx
    /\ commits' = commits + 1
    /\ executed' = Append(executed, Cur)
    /\ pc' = pc + 1
    /\ UNCHANGED << tx, pre, fn, input, phase, conn, result, report, failedAt,
                    envFault, runNo, prev >>

\* run-onboarding-migration.py:67-80: the column query after the commit;
\*   if column_result: ... else: return False
VerifyObColumnFound ==
    /\ phase = "body"
    /\ Cur = "v_ob_column"
    /\ "onboarding_completed_at" \in tx.usersCols
    /\ executed' = Append(executed, Cur)
    /\ pc' = pc + 1
    /\ UNCHANGED << db, tx, pre, fn, input, phase, conn, commits, result,
                    report, failedAt, envFault, runNo, prev >>

VerifyObColumnMissing ==
    /\ phase = "body"
    /\ Cur = "v_ob_column"
    /\ "onboarding_completed_at" \notin tx.usersCols
    /\ executed' = Append(executed, Cur)
    /\ failedAt' = Cur
    /\ result' = "False"
    /\ phase' = "done"
    /\ UNCHANGED << db, tx, pre, fn, input, pc, conn, commits, report, envFault,
                    runNo, prev >>

\* cursor.close(); conn.close(); return True
CloseAndReturn ==
    /\ phase = "body"
    /\ Cur = "close"
    /\ conn' = "closed"
    /\ tx' = Rollback(db, tx)
    /\ executed' = Append(executed, Cur)
    /\ result' = "True"
    /\ phase' = "done"
    /\ UNCHANGED << db, pre, fn, input, pc, commits, report, failedAt, envFault,
                    runNo, prev >>

\* The except clause's test of the connection: if 'conn' in locals():
\* (run-migration.py:201) / if conn: (run-cv-migration.py:195, conn = None
\* at :52).
ConnBoundAlways == TRUE
ConnBound == conn # "none"

\* except Exception: the test is false; return False
ExceptNoConn ==
    /\ phase = "except"
    /\ ~ConnBound
    /\ result' = "False"
    /\ phase' = "done"
    /\ UNCHANGED << db, tx, pre, fn, input, pc, conn, executed, commits, report,
                    failedAt, envFault, runNo, prev >>

\* Whether the except clause closes the connection after the rollback:
\* run-cv-migration.py:193-204 does not.
ClosesInExcept(f) == f # "cv"

\* conn.rollback()
ExceptRollback ==
    /\ phase = "except"
    /\ ConnBound
    /\ tx' = Rollback(db, tx)
    /\ IF ClosesInExcept(fn)
       THEN phase' = "except_close" /\ UNCHANGED result
       ELSE phase' = "done" /\ result' = "False"
    /\ UNCHANGED << db, pre, fn, input, pc, conn, executed, commits, report,
                    failedAt, envFault, runNo, prev >>

\* conn.rollback() itself raises (the connection is gone): the exception
\* leaves the function; the server discards the transaction.
ExceptRollbackRaises ==
    /\ phase = "except"
    /\ ConnBound
    /\ envFault
    /\ tx' = db
    /\ result' = "raised"
    /\ phase' = "done"
    /\ UNCHANGED << db, pre, fn, input, pc, conn, executed, commits, report,
                    failedAt, envFault, runNo, prev >>

\* conn.close(); return False
ExceptClose ==
    /\ phase = "except_close"
    /\ conn' = "closed"
    /\ result' = "False"
    /\ phase' = "done"
    /\ UNCHANGED << db, tx, pre, fn, input, pc, executed, commits, report,
                    failedAt, envFault, runNo, prev >>

\* ------------------------------------------------------- initial databases
\* Rows of a table in a canonical order (a table is a bag of rows).
SortedRows(vals, n) ==
    { r \in UNION { [1..k -> vals] : k \in 0..n } :
        \A i \in 1..(Len(r) - 1) : r[i].key <= r[i + 1].key }

\* The application's tables (setup-database.py) as fix_foreign_key_constraint
\* expects to find them: job_analysis.user_id not yet VARCHAR(255) and its
\* foreign key under the old name (the mismatch run-migration.py repairs).
BaseDb ==
    [ tables |-> RequiredTables,
      users |-> { u \in UserIdVals : u.key = 1 },
      ja |-> << >>,
      res |-> << >>,
      jaType |-> "text",
      resType |-> "varchar255",
      fks |-> {"fk_job_analysis_user_id"},
      indexes |-> {},
      resCols |-> MasterColumns,
      defaults |-> [c \in {"kind", "processing_status"} |-> ""],
      notnull |-> {},
      triggers |-> {},
      functions |-> {TriggerFunction},
      comments |-> {},
      usersCols |-> {} ]

\* A database the program can meet: a VARCHAR(255) column holds no longer
\* value, an existing foreign key has no orphan, a NOT NULL column no NULL,
\* a missing column no value, a missing table no row and no constraint.
ValidDb(s) ==
    /\ s.jaType = "varchar255" =>
           \A i \in DOMAIN s.ja : CHAR_LENGTH(s.ja[i]) <= VarcharLimit
    /\ s.resType = "varchar255" =>
           \A i \in DOMAIN s.res : CHAR_LENGTH(s.res[i].user_id) <= VarcharLimit
    /\ s.fks \cap JaFkNames # {} => OrphansOf(Range(s.ja), s.users) = {}
    /\ ResFk \in s.fks => OrphansOf(ResUserIds(s), s.users) = {}
    /\ \A c \in {"kind", "processing_status"} :
           /\ c \in s.notnull => c \in s.resCols /\ ~HasNull(s, c)
           /\ c \notin s.resCols =>
                  /\ \A i \in DOMAIN s.res : s.res[i][c] = NoVal
                  /\ s.defaults[c] = ""
    /\ "job_analysis" \notin s.tables => s.ja = << >> /\ s.fks \cap JaFkNames = {}
    /\ "resumes" \notin s.tables => s.res = << >> /\ ResFk \notin s.fks
    /\ "users_sync" \notin s.tables => s.users = {} /\ s.fks = {}
    /\ HcTable \notin s.tables =>
           s.indexes \cap HcIndexes = {} /\ HcTrigger \notin s.triggers
    /\ HcTrigger \in s.triggers => TriggerFunction \in s.functions

\* job_analysis and users_sync vary.
JaDbs ==
    { [BaseDb EXCEPT !.users = u, !.ja = r, !.jaType = t, !.fks = f] :
        u \in { x \in SUBSET UserIdVals : BaseDb.users \subseteq x },
        r \in SortedRows(UserIdVals \cup {NULL}, MaxJaRows),
        t \in {"text", "varchar255"},
        f \in { {}, JaFkNames } }

\* resumes varies.
ResRows ==
    [ user_id : { u \in UserIdVals : u.key \in {1, 2} },
      kind : {NoVal, "master"},
      processing_status : {NoVal, "pending"} ]
ResDbs ==
    { [BaseDb EXCEPT !.ja = <<CHOOSE u \in UserIdVals : u.key = 1>>,
                     !.res = r, !.resCols = c, !.notnull = n,
                     !.fks = @ \cup f, !.indexes = i] :
        r \in UNION { [1..k -> ResRows] : k \in 0..MaxResRows },
        c \in { {}, {"kind"}, MasterColumns },
        n \in { {}, {"kind", "processing_status"} },
        f \in { {}, {ResFk} },
        i \in { {}, {"idx_resumes_user_id", "idx_resumes_kind",
                     "idx_resumes_processing_status"} } }

\* resume_health_checks and the trigger function vary.
HcDbs ==
    { [BaseDb EXCEPT !.tables = @ \cup t, !.indexes = i, !.triggers = g,
                     !.functions = f] :
        t \in { {}, {HcTable} },
        i \in { {}, HcIndexes },
        g \in { {}, {HcTrigger} },
        f \in { {}, {TriggerFunction} } }

\* One of the base tables is missing.
TableDbs ==
    { [BaseDb EXCEPT !.tables = @ \ {t}, !.users = IF t = "users_sync" THEN {} ELSE @,
                     !.fks = IF t = "resumes" THEN @ ELSE {}] :
        t \in RequiredTables }

InitDbs == { s \in JaDbs \cup ResDbs \cup HcDbs \cup TableDbs : ValidDb(s) }

Init ==
    /\ db \in InitDbs
    /\ tx = db
    /\ pre = db
    /\ fn = "none"
    /\ input = [url |-> TRUE, file |-> TRUE, sql_adds_column |-> TRUE]
    /\ phase = "idle"
    /\ pc = 1
    /\ conn = "none"
    /\ executed = << >>
    /\ commits = 0
    /\ result = "none"
    /\ report = NoReport
    /\ failedAt = "none"
    /\ envFault = FALSE
    /\ runNo = 0
    /\ prev = [fn |-> "none", result |-> "none", db |-> db, envFault |-> FALSE]

Next ==
    \/ \E f \in Functions, in_ \in Inputs : Start(f, in_)
    \/ \E f \in Functions, in_ \in Inputs : StartNoUrl(f, in_)
    \/ \E f \in Functions, in_ \in Inputs : StartNoFile(f, in_)
    \/ Connect
    \/ ConnectFails
    \/ ExecStmt
    \/ ExecStmtFails
    \/ ExecFault
    \/ LengthCheckPass
    \/ LengthCheckAbort
    \/ OrphanCheckPass
    \/ OrphanCheckAbort
    \/ OrphanCheckFails
    \/ PrereqCheckPass
    \/ PrereqCheckAbort
    \/ Commit
    \/ VerifyObColumnFound
    \/ VerifyObColumnMissing
    \/ CloseAndReturn
    \/ ExceptNoConn
    \/ ExceptRollback
    \/ ExceptRollbackRaises
    \/ ExceptClose

Spec == Init /\ [][Next]_vars

\* ================================================================= claims
Ran(st) == Executes(executed, st)
Last(seq) == seq[Len(seq)]
JustRan(st) == Len(executed) > 0 /\ Last(executed) = st
\* The statement executed right after st, "" when none was.
RanAfter(st) ==
    IF Ran(st) /\ IndexOf(executed, st) < Len(executed)
    THEN executed[IndexOf(executed, st) + 1] ELSE ""
HasLongRow(s) == \E i \in DOMAIN s.ja : s.ja[i].len > 255
OrphanRows(s) == { i \in DOMAIN s.ja : s.ja[i] # NULL /\ s.ja[i] \notin s.users }

\* C1 -- atomicity of fix_foreign_key_constraint: when the run ends without
\* having committed (a pre-check or a statement failed before the commit),
\* the committed schema and data, and what the connection last saw, are those
\* of the start of the run; nothing of the earlier steps survives.
C1_Atomicity ==
    (fn = "fk" /\ phase = "done" /\ commits = 0) => (db = pre /\ tx = pre)

\* C1 witness: the orphan check failed after the column was retyped in the
\* transaction, and the run has returned False.
C1_Witness ==
    /\ fn = "fk" /\ phase = "done" /\ result = "False"
    /\ failedAt = "orphan_check" /\ ~envFault
    /\ Ran("alter_job_analysis_user_id_type")
    /\ pre.jaType = "text"
    /\ db = pre

\* C2 -- MaxLength(255) precondition: with a user_id longer than 255 in
\* job_analysis the type change is never executed; with every user_id of
\* length <= 255 (255 included) the length check passes, reporting no
\* offending row, and the type change is the next statement executed.
C2_LengthPrecondition ==
    fn = "fk" =>
        /\ HasLongRow(pre) => ~Ran("alter_job_analysis_user_id_type")
        /\ (~HasLongRow(pre) /\ JustRan("length_check") /\ ~envFault) =>
               /\ phase = "body"
               /\ Cur = "alter_job_analysis_user_id_type"
               /\ report.offending_count = 0
        /\ (~HasLongRow(pre) /\ RanAfter("length_check") # "") =>
               RanAfter("length_check") = "alter_job_analysis_user_id_type"

\* C2 witness: a row of exactly 255 characters and the type change executed.
C2_Witness ==
    /\ fn = "fk"
    /\ \E i \in DOMAIN pre.ja : pre.ja[i].len = 255
    /\ Ran("alter_job_analysis_user_id_type")
    /\ tx.jaType = "varchar255"

\* C3 -- orphan soundness: the count the orphan check reports is the number
\* of job_analysis rows whose user_id is non-null and is no users_sync.id;
\* with such a row the foreign key is never added and the check aborts the
\* run with that count; with none the ADD CONSTRAINT is the next statement.
C3_OrphanSoundness ==
    fn = "fk" =>
        /\ report.orphan_count # -1 =>
               report.orphan_count = Cardinality(OrphanRows(pre))
        /\ OrphanRows(pre) # {} =>
               /\ ~Ran("add_job_analysis_user_id_fkey")
               /\ report.orphan_count # -1 =>
                      failedAt = "orphan_check" /\ phase # "body"
        /\ (OrphanRows(pre) = {} /\ JustRan("orphan_check")
              /\ report.orphan_count # -1) =>
               /\ phase = "body"
               /\ Cur = "add_job_analysis_user_id_fkey"
        /\ (OrphanRows(pre) = {} /\ RanAfter("orphan_check") # "") =>
               RanAfter("orphan_check") = "add_job_analysis_user_id_fkey"

\* C3 witness: one orphan beside a NULL user_id; the run aborted reporting 1.
C3_Witness ==
    /\ fn = "fk" /\ phase = "done"
    /\ failedAt = "orphan_check"
    /\ report.orphan_count = 1
    /\ \E i \in DOMAIN pre.ja : pre.ja[i] = NULL
    /\ ~Ran("add_job_analysis_user_id_fkey")

\* The DDL statements of fix_foreign_key_constraint.
IsDDL(st) == st \in { "drop_fk_job_analysis_user_id", "drop_job_analysis_user_id_fkey",
                      "alter_job_analysis_user_id_type", "add_job_analysis_user_id_fkey",
                      "create_idx_job_analysis_user_id", "drop_resumes_user_id_fkey",
                      "alter_resumes_user_id_type", "add_resumes_user_id_fkey",
                      "create_idx_resumes_user_id", "create_idx_resumes_kind",
                      "create_idx_resumes_processing_status" }
                \/ st \in { "add_col_kind", "set_default_kind", "set_not_null_kind",
                      "add_col_processing_status", "set_default_processing_status",
                      "set_not_null_processing_status", "add_col_processing_error",
                      "add_col_parsed_sections", "add_col_extracted_at",
                      "add_col_source_metadata" }

NoDuplicates(seq) == \A i, j \in DOMAIN seq : i # j => seq[i] # seq[j]

\* C4 -- commit gating, in each of the four functions: conn.commit() succeeds
\* at most once in a run; the committed database changes only by it; when it
\* happens nothing has failed, every statement written before it has been
\* executed in order, every pre-check has passed, and the committed database
\* was until then the one the run started from (one transaction).
C4_Step ==
    /\ db' # db => commits' = commits + 1
    /\ (commits' # commits /\ runNo' = runNo) =>
           /\ commits = 0 /\ commits' = 1
           /\ failedAt = "none" /\ ~envFault
           /\ PlanOf(fn)[pc] = "commit"
           /\ executed = SubSeq(PlanOf(fn), 1, pc - 1)
           /\ \A i \in (pc + 1)..Len(PlanOf(fn)) :
                  PlanOf(fn)[i] \in ReadOnly \cup {"v_ob_column", "close"}
           /\ db = pre /\ db' = tx
           /\ fn = "fk" =>
                  /\ report.offending_count = 0 /\ report.orphan_count = 0
                  /\ ~HasLongRow(pre) /\ OrphanRows(pre) = {}
           /\ fn = "cv" => RequiredTables \subseteq pre.tables
C4_CommitGating == [](commits <= 1) /\ [][C4_Step]_vars

\* C4 witness: fix_foreign_key_constraint has committed a changed schema.
C4_Witness ==
    /\ fn = "fk" /\ commits = 1
    /\ db # pre
    /\ report.orphan_count = 0 /\ report.offending_count = 0

\* C5 -- result/commit consistency (the claim as stated): a run that has
\* committed returns True whatever happens after the commit, and a run that
\* returns False has committed nothing and leaves the schema as it found it.
C5_ResultCommitConsistency ==
    phase = "done" =>
        /\ commits = 1 => result = "True"
        /\ result = "False" => (commits = 0 /\ db = pre)

\* C6 -- idempotence of fix_foreign_key_constraint and
\* run_health_check_migration: in a run that follows a successful run of the
\* same function, nothing fails because of the schema or the data, the run
\* succeeds unless the environment fails it, and what it commits is exactly
\* what the first run committed.
C6_Idempotence ==
    (fn \in {"fk", "hc"} /\ runNo >= 2 /\ prev.fn = fn /\ prev.result = "True"
       /\ input.url) =>
        /\ failedAt # "none" => envFault
        /\ (phase = "done" /\ ~envFault) => result = "True"
        /\ commits = 1 => db = prev.db
        /\ phase = "done" => db = prev.db

\* C6 witness: a second run of fix_foreign_key_constraint has succeeded after
\* a first one that changed the schema.
C6_Witness ==
    /\ fn = "fk" /\ runNo = 2 /\ prev.fn = "fk" /\ prev.result = "True"
    /\ phase = "done" /\ result = "True" /\ commits = 1
    /\ db = prev.db
    /\ "job_analysis_user_id_fkey" \in db.fks

\* C7 -- ordering in fix_foreign_key_constraint: the statements run in the
\* declared order (drops, length check, type change, orphan check, FK add,
\* index, resumes changes), and the orphan check and the FK add see the
\* column already VARCHAR(255) and the old constraints already dropped.
DeclaredOrder ==
    << "drop_fk_job_analysis_user_id", "drop_job_analysis_user_id_fkey",
       "length_check", "alter_job_analysis_user_id_type", "orphan_check",
       "add_job_analysis_user_id_fkey", "create_idx_job_analysis_user_id",
       "drop_resumes_user_id_fkey", "alter_resumes_user_id_type",
       "add_resumes_user_id_fkey", "create_idx_resumes_user_id",
       "add_col_kind", "set_default_kind", "update_kind", "set_not_null_kind",
       "add_col_processing_status", "set_default_processing_status",
       "update_processing_status", "set_not_null_processing_status" >>
C7_Ordering ==
    fn = "fk" =>
        /\ LET declared(st) == Executes(DeclaredOrder, st)
               ex == SelectSeq(executed, declared)
           IN  ex = SubSeq(DeclaredOrder, 1, Len(ex))
        /\ (phase = "body" /\ Cur \in {"orphan_check", "add_job_analysis_user_id_fkey"}) =>
               /\ tx.jaType = "varchar255"
               /\ tx.fks \cap JaFkNames = {}

\* C7 witness: the FK add is about to run on a column that was TEXT and had
\* an old constraint when the run started.
C7_Witness ==
    /\ fn = "fk" /\ phase = "body" /\ Cur = "add_job_analysis_user_id_fkey"
    /\ pre.jaType = "text" /\ tx.jaType = "varchar255"
    /\ pre.fks \cap JaFkNames # {} /\ tx.fks \cap JaFkNames = {}

\* C8 -- abort stops the plan, in each of the four functions: once a
\* pre-check or a statement has failed, the run executes no further statement
\* and commits nothing (it only rolls back, closes and returns), and no
\* statement is executed twice in a run.
C8_Step ==
    (failedAt # "none" /\ runNo' = runNo) =>
        /\ executed' = executed
        /\ commits' = commits
        /\ db' = db
        /\ tx' \in {tx, db}
        /\ phase' \in {"except", "except_close", "done"}
C8_AbortStopsPlan == [](NoDuplicates(executed)) /\ [][C8_Step]_vars

\* C8 witness: a statement was rejected and the run has returned.
C8_Witness ==
    /\ fn = "fk" /\ phase = "done" /\ result = "False"
    /\ failedAt = "add_resumes_user_id_fkey"
    /\ JustRan("add_resumes_user_id_fkey")

\* C9 -- as stated: when the length pre-check fails, no DDL statement has
\* been executed in the run.
C9_NoDDLBeforeLengthAbort ==
    (fn = "fk" /\ failedAt = "length_check" /\ report.offending_count > 0) =>
        \A i \in DOMAIN executed : ~IsDDL(executed[i])

\* C9 -- amended: when the length pre-check fails, the DDL executed before it
\* is exactly the two DROP CONSTRAINT IF EXISTS statements; the type change
\* and every later DDL statement have not run, and once the run has returned
\* the drops are rolled back.
C9_OnlyDropsBeforeLengthAbort ==
    (fn = "fk" /\ failedAt = "length_check" /\ report.offending_count > 0) =>
        /\ { executed[i] : i \in { j \in DOMAIN executed : IsDDL(executed[j]) } }
             = {"drop_fk_job_analysis_user_id", "drop_job_analysis_user_id_fkey"}
        /\ tx.jaType = pre.jaType
        /\ phase = "done" => (db = pre /\ tx = pre)

\* C9 witness: the length check aborted a run that had dropped an existing
\* foreign key, and the key is back after the return.
C9_Witness ==
    /\ fn = "fk" /\ phase = "done" /\ failedAt = "length_check"
    /\ report.offending_count > 0
    /\ pre.fks \cap JaFkNames # {}
    /\ db = pre

\* C10 -- as stated: every narrowing type change and every ADD CONSTRAINT
\* FOREIGN KEY of fix_foreign_key_constraint runs only after a data check of
\* the same table and column was executed earlier in the run.
CheckNeededBy(st) ==
    CASE st = "alter_job_analysis_user_id_type" -> <<"job_analysis.user_id", "length">>
      [] st = "add_job_analysis_user_id_fkey" -> <<"job_analysis.user_id", "orphans">>
      [] st = "add_resumes_user_id_fkey" -> <<"resumes.user_id", "orphans">>
      [] OTHER -> <<"", "">>
CheckDoneBy(st) ==
    CASE st = "length_check" -> <<"job_analysis.user_id", "length">>
      [] st = "orphan_check" -> <<"job_analysis.user_id", "orphans">>
      [] OTHER -> <<"", "none">>
C10_EveryRiskyStepPrechecked ==
    fn = "fk" =>
        \A i \in DOMAIN executed :
            CheckNeededBy(executed[i]) # <<"", "">> =>
                \E j \in 1..(i - 1) : CheckDoneBy(executed[j]) = CheckNeededBy(executed[i])

\* C12 -- as stated: whenever a function returns (True or False) after its
\* connection was opened, the connection has been closed.
C12_ConnectionReleased ==
    (phase = "done" /\ result \in {"True", "False"} /\ conn # "none")
        => conn = "closed"

\* C13 -- as stated: every run in which something raised after the
\* connection was opened ends by returning False; no exception leaves the
\* function, a failing rollback included.
C13_ErrorsReturnFalse ==
    (phase = "done" /\ conn # "none" /\ failedAt # "none") => result = "False"

\* C16 -- structural prerequisite of run_cv_migration: when users_sync,
\* job_analysis or resumes is absent at the start of the run, the migration
\* SQL is never executed, nothing is committed, the schema is unchanged and
\* the run does not return True; it returns False whenever no error outside
\* schema and data was raised.  The migration SQL is executed only when
\* all three tables exist.
C16_PrerequisiteGate ==
    fn = "cv" =>
        /\ Ran("cv_migration_sql") => RequiredTables \subseteq pre.tables
        /\ ~(RequiredTables \subseteq pre.tables) =>
               /\ ~Ran("cv_migration_sql")
               /\ ~Ran("commit") /\ commits = 0
               /\ db = pre
               /\ result # "True"
               /\ (phase = "done" /\ ~envFault) => result = "False"
               /\ (JustRan("prereq_check") /\ ~envFault) =>
                      (phase = "done" /\ tx = pre /\ conn = "closed")

\* C16 witness: resumes is absent, the prerequisite check has stopped the run
\* right after the table query, and the run has returned False.
C16_Witness ==
    /\ fn = "cv" /\ phase = "done" /\ result = "False"
    /\ "resumes" \notin pre.tables
    /\ executed = <<"q_existing_cv_tables", "prereq_check">>
    /\ failedAt = "prereq_check"
    /\ db = pre

\* C18 -- no database handle: when DATABASE_URL is unset or
\* psycopg2.connect raises, the function returns False with no statement
\* executed, nothing committed and the database untouched, and the except
\* clause goes straight to the return: no rollback and no close is called
\* (there is no connection, and none appears).
C18_NoHandle ==
    /\ failedAt = "connect" =>
           /\ phase \in {"except", "done"}
           /\ conn = "none"
           /\ executed = << >> /\ commits = 0 /\ db = pre /\ tx = pre
           /\ phase = "done" => result = "False"
    /\ (phase = "done" /\ fn \in Functions /\ ~input.url) =>
           /\ result = "False" /\ conn = "none" /\ failedAt = "none"
           /\ executed = << >> /\ commits = 0 /\ db = pre

\* C18 witness: psycopg2.connect raised and the function has returned False.
C18_Witness ==
    /\ phase = "done" /\ failedAt = "connect" /\ input.url
    /\ result = "False" /\ conn = "none" /\ executed = << >>

\* C20 -- committed state of fix_foreign_key_constraint: once the run has
\* committed, the committed database has job_analysis.user_id VARCHAR(255)
\* with no value longer than 255, the constraint job_analysis_user_id_fkey
\* with no non-null user_id missing from users_sync, and resumes.kind and
\* resumes.processing_status NOT NULL with no NULL in any row; in every run
\* the back-fill UPDATE of a column is executed before its SET NOT NULL.
C20_CommittedState ==
    fn = "fk" =>
        /\ commits > 0 =>
               /\ db.jaType = "varchar255"
               /\ \A i \in DOMAIN db.ja : db.ja[i].len <= 255
               /\ "job_analysis_user_id_fkey" \in db.fks
               /\ OrphanRows(db) = {}
               /\ {"kind", "processing_status"} \subseteq db.notnull
               /\ {"kind", "processing_status"} \subseteq db.resCols
               /\ \A i \in DOMAIN db.res :
                      db.res[i].kind # NoVal /\ db.res[i].processing_status # NoVal
        /\ Ran("set_not_null_kind") =>
               /\ Ran("update_kind")
               /\ IndexOf(executed, "update_kind")
                      < IndexOf(executed, "set_not_null_kind")
        /\ Ran("set_not_null_processing_status") =>
               /\ Ran("update_processing_status")
               /\ IndexOf(executed, "update_processing_status")
                      < IndexOf(executed, "set_not_null_processing_status")

\* C20 witness: a successful run on a database whose job_analysis.user_id
\* was text and whose resumes had a row with NULL kind in a nullable column.
C20_Witness ==
    /\ fn = "fk" /\ phase = "done" /\ result = "True" /\ commits = 1
    /\ pre.jaType = "text"
    /\ "kind" \in pre.resCols /\ "kind" \notin pre.notnull
    /\ \E i \in DOMAIN pre.res : pre.res[i].kind = NoVal
    /\ pre.ja # << >>
    /\ db # pre

\* C14 -- the pre-checks are read-only and repeatable: the step that
\* evaluates the length check or the orphan check changes neither the
\* committed database nor the transaction's schema and data; and as long as
\* the rows of job_analysis and users_sync are those of the start of the
\* run, the counts a check reported are the counts of the current rows (a
\* second evaluation, such as the orphan query repeated at :183-188, gives
\* the same counts and the same pass/fail outcome).
C14_Step ==
    (fn = "fk" /\ phase = "body" /\ PlanOf(fn)[pc] \in {"length_check", "orphan_check"}
       /\ executed' = Append(executed, PlanOf(fn)[pc]))
        => (tx' = tx /\ db' = db)
C14_Repeat ==
    (fn = "fk" /\ tx.ja = pre.ja /\ tx.users = pre.users) =>
        /\ report.offending_count \in
               {-1, Cardinality({ i \in DOMAIN tx.ja : tx.ja[i].len > 255 })}
        /\ report.orphan_count \in {-1, Cardinality(OrphanRows(tx))}
        /\ (failedAt = "length_check" /\ ~envFault) => HasLongRow(tx)
        /\ (failedAt = "orphan_check" /\ ~envFault /\ "users_sync" \in tx.tables)
               => OrphanRows(tx) # {}
        /\ (JustRan("v_orphans") /\ failedAt = "none") =>
               (report.orphan_count = 0 /\ OrphanRows(tx) = {})
C14_ReadOnlyRepeatable == []C14_Repeat /\ [][C14_Step]_vars

\* C14 witness: both checks have been evaluated and passed on a database
\* with rows, the orphan query has been repeated after the commit, and the
\* rows are those of the start of the run.
C14_Witness ==
    /\ fn = "fk" /\ JustRan("v_orphans") /\ failedAt = "none"
    /\ report.offending_count = 0 /\ report.orphan_count = 0
    /\ Len(pre.ja) = MaxJaRows
    /\ tx.ja = pre.ja /\ tx.users = pre.users
    /\ tx # pre

\* ------------------------------------------- the length check on its own
\* fix_foreign_key_constraint up to the length check and its except clause,
\* on job_analysis tables whose user_id values have several lengths above
\* the limit.
Idle ==
    /\ tx = db
    /\ pre = db
    /\ fn = "none"
    /\ input = [url |-> TRUE, file |-> TRUE, sql_adds_column |-> TRUE]
    /\ phase = "idle"
    /\ pc = 1
    /\ conn = "none"
    /\ executed = << >>
    /\ commits = 0
    /\ result = "none"
    /\ report = NoReport
    /\ failedAt = "none"
    /\ envFault = FALSE
    /\ runNo = 0
    /\ prev = [fn |-> "none", result |-> "none", db |-> db, envFault |-> FALSE]

LengthVals == UserIdVals \cup { [key |-> 4, len |-> VarcharLimit + 45] }
LengthDbs ==
    { [BaseDb EXCEPT !.ja = r, !.users = LengthVals, !.fks = {}] :
        r \in SortedRows(LengthVals \cup {NULL}, MaxJaRows) }

InitLength == db \in LengthDbs /\ Idle

NextLength ==
    \/ Start("fk", [url |-> TRUE, file |-> TRUE, sql_adds_column |-> TRUE])
    \/ Connect
    \/ phase = "body" /\ ~Ran("length_check") /\ ExecStmt
    \/ LengthCheckPass
    \/ LengthCheckAbort
    \/ ExceptRollback
    \/ ExceptClose

SpecLength == InitLength /\ [][NextLength]_vars

\* C17 -- the length check's report: the offending_count it reports is the
\* number of job_analysis rows whose user_id is longer than 255 characters
\* and max_len is the greatest length among those rows; with no such row
\* both are 0; the check fails exactly when the count is positive; the
\* report consists of counts only, no row value.
C17_LengthReport ==
    LET long == { i \in DOMAIN pre.ja : pre.ja[i] # NULL /\ pre.ja[i].len > 255 }
    IN  /\ DOMAIN report = {"offending_count", "max_len", "orphan_count"}
        /\ report.offending_count \in Nat \cup {-1}
        /\ report.max_len \in Nat \cup {-1}
        /\ (fn = "fk" /\ Ran("length_check")) =>
               /\ report.offending_count = Cardinality(long)
               /\ long = {} => report.max_len = 0
               /\ long # {} =>
                      /\ \E i \in long : pre.ja[i].len = report.max_len
                      /\ \A i \in long : pre.ja[i].len <= report.max_len
               /\ (failedAt = "length_check") <=> (long # {})

\* C17 witness: the length check failed on two rows of different lengths
\* above 255 and reported the greater one.
C17_Witness ==
    /\ fn = "fk" /\ failedAt = "length_check" /\ phase = "done"
    /\ report.offending_count = 2
    /\ report.max_len = VarcharLimit + 45
    /\ \E i \in DOMAIN pre.ja : pre.ja[i].len = VarcharLimit + 1

\* ------------------------------------------------------- setup_database
\* setup-database.py sends every statement through the Neon client
\* (sql = neon(DATABASE_URL); await sql(...)): there is no connection object,
\* no BEGIN, no commit and no rollback in the script, so each statement is
\* its own transaction and is committed when it succeeds.
\* The database may be empty (the first setup) or any of InitDbs.
EmptyDb ==
    [BaseDb EXCEPT !.tables = {}, !.users = {}, !.fks = {}, !.resCols = {},
                   !.functions = {}]
SdDbs == { s \in InitDbs \cup {EmptyDb} : ValidDb(s) }

InitSetup == db \in SdDbs /\ Idle

\* asyncio.run(setup_database()) with DATABASE_URL set (:6-13, :268).
SdStart ==
    /\ Begin("sd", [url |-> TRUE, file |-> TRUE, sql_adds_column |-> TRUE])
    /\ phase' = "body"
    /\ result' = "none"

\* await sql(<statement>) succeeds: the statement is committed.
SdExec ==
    /\ fn = "sd" /\ phase = "body"
    /\ Cur # "return"
    /\ ~Fails(Cur, db)
    /\ db' = Effect(Cur, db, input)
    /\ tx' = db'
    /\ executed' = Append(executed, Cur)
    /\ pc' = pc + 1
    /\ UNCHANGED << pre, fn, input, phase, conn, commits, result, report,
                    failedAt, envFault, runNo, prev >>

\* await sql(<statement>) raises because the database rejects the statement.
SdExecFails ==
    /\ fn = "sd" /\ phase = "body"
    /\ Cur # "return"
    /\ Fails(Cur, db)
    /\ executed' = Append(executed, Cur)
    /\ failedAt' = Cur
    /\ phase' = "except"
    /\ UNCHANGED << db, tx, pre, fn, input, pc, conn, commits, result, report,
                    envFault, runNo, prev >>

\* await sql(<statement>) raises for a reason outside schema and data.
SdExecFault ==
    /\ fn = "sd" /\ phase = "body"
    /\ Cur # "return"
    /\ executed' = Append(executed, Cur)
    /\ failedAt' = Cur
    /\ envFault' = TRUE
    /\ phase' = "except"
    /\ UNCHANGED << db, tx, pre, fn, input, pc, conn, commits, result, report,
                    runNo, prev >>

\* The end of the try block: the coroutine returns None.
SdReturn ==
    /\ fn = "sd" /\ phase = "body"
    /\ Cur = "return"
    /\ result' = "None"
    /\ phase' = "done"
    /\ UNCHANGED << db, tx, pre, fn, input, pc, conn, executed, commits, report,
                    failedAt, envFault, runNo, prev >>

\* except Exception as e: print(...); raise e
SdExcept ==
    /\ fn = "sd" /\ phase = "except"
    /\ result' = "raised"
    /\ phase' = "done"
    /\ UNCHANGED << db, tx, pre, fn, input, pc, conn, executed, commits, report,
                    failedAt, envFault, runNo, prev >>

NextSetup ==
    \/ SdStart
    \/ SdExec
    \/ SdExecFails
    \/ SdExecFault
    \/ SdReturn
    \/ SdExcept

SpecSetup == InitSetup /\ [][NextSetup]_vars

\* C11 -- as stated: when a statement of setup_database fails, the schema
\* is the one the run started from: nothing the earlier statements of the
\* run created is present.
C11_SetupAtomicity ==
    (fn = "sd" /\ failedAt # "none") => db = pre

\* C19 -- as stated: setup_database issues CREATE INDEX ... ON resumes(kind)
\* and ON resumes(processing_status) only when resumes has the column.
C19_ColumnBeforeIndex ==
    (fn = "sd" /\ phase = "body") =>
        /\ Cur = "create_idx_resumes_kind" => "kind" \in db.resCols
        /\ Cur = "create_idx_resumes_processing_status" =>
               "processing_status" \in db.resCols

\* ------------------------------------- a concurrent writer (READ COMMITTED)
\* Another session inserts or updates job_analysis rows and deletes
\* users_sync rows, one auto-committed statement at a time, while
\* fix_foreign_key_constraint runs.  PostgreSQL's default isolation level is
\* READ COMMITTED (the script sets none): every statement of the run sees
\* what other sessions have committed, so the writer's change shows in db and
\* in tx.  The writer's statements are checked against the committed schema
\* (the run's uncommitted DDL is invisible to it) and wait for the run's
\* table locks, which the run keeps until its commit or rollback.
InTransaction == fn = "fk" /\ phase \in {"body", "except"} /\ commits = 0

\* ALTER TABLE job_analysis ... (:67 onwards) takes ACCESS EXCLUSIVE on
\* job_analysis: no other session reads or writes the table.
NoJaLock == FALSE
HoldsJaLock ==
    /\ InTransaction
    /\ Ran("drop_fk_job_analysis_user_id")
    /\ failedAt # "drop_fk_job_analysis_user_id"

\* ADD CONSTRAINT ... REFERENCES users_sync(id) (:106-110) takes SHARE ROW
\* EXCLUSIVE on users_sync: no other session deletes from it.
HoldsUsersLock ==
    /\ InTransaction
    /\ Ran("add_job_analysis_user_id_fkey")
    /\ failedAt # "add_job_analysis_user_id_fkey"

InsertSorted(rows, v) ==
    LET k == Cardinality({ i \in DOMAIN rows : rows[i].key <= v.key })
    IN  SubSeq(rows, 1, k) \o <<v>> \o SubSeq(rows, k + 1, Len(rows))
RemoveAt(rows, i) == SubSeq(rows, 1, i - 1) \o SubSeq(rows, i + 1, Len(rows))

\* Whether the committed schema accepts user_id value v in job_analysis.
Accepts(s, v) ==
    /\ s.jaType = "varchar255" => CHAR_LENGTH(v) <= VarcharLimit
    /\ s.fks \cap JaFkNames # {} => (IsNull(v) \/ v \in s.users)

WriterSets(rows, users) ==
    /\ db' = [db EXCEPT !.ja = rows, !.users = users]
    /\ tx' = [tx EXCEPT !.ja = rows, !.users = users]
    /\ UNCHANGED << pre, fn, input, phase, pc, conn, executed, commits, result,
                    report, failedAt, envFault, runNo, prev >>

\* INSERT INTO job_analysis (user_id, ...) VALUES (v, ...)
WriterInsert(v) ==
    /\ "job_analysis" \in db.tables
    /\ ~HoldsJaLock
    /\ Len(db.ja) < MaxJaRows
    /\ Accepts(db, v)
    /\ WriterSets(InsertSorted(db.ja, v), db.users)

\* UPDATE job_analysis SET user_id = v WHERE id = <row i>
WriterUpdate(i, v) ==
    /\ ~HoldsJaLock
    /\ i \in DOMAIN db.ja
    /\ db.ja[i] # v
    /\ Accepts(db, v)
    /\ WriterSets(InsertSorted(RemoveAt(db.ja, i), v), db.users)

\* DELETE FROM users_sync WHERE id = u.  With a committed foreign key on
\* job_analysis (ON DELETE CASCADE, setup-database.py:104) the delete also
\* removes the rows of job_analysis that reference u, and needs the table.
WriterDeleteUser(u) ==
    /\ u \in db.users
    /\ ~HoldsUsersLock
    /\ IF db.fks \cap JaFkNames # {}
       THEN /\ ~HoldsJaLock
            /\ LET keep(v) == v # u
               IN  WriterSets(SelectSeq(db.ja, keep), db.users \ {u})
       ELSE WriterSets(db.ja, db.users \ {u})

ConcurrentDbs ==
    { [BaseDb EXCEPT !.users = { u \in UserIdVals : u.key \in {1, 2} },
                     !.ja = r, !.fks = f] :
        r \in SortedRows({ u \in UserIdVals : u.key = 1 }, 1),
        f \in { {}, {"fk_job_analysis_user_id"} } }

InitConcurrent == db \in ConcurrentDbs /\ Idle

NextConcurrent ==
    \/ runNo = 0 /\ Start("fk", [url |-> TRUE, file |-> TRUE, sql_adds_column |-> TRUE])
    \/ Connect
    \/ ExecStmt
    \/ ExecStmtFails
    \/ LengthCheckPass
    \/ LengthCheckAbort
    \/ OrphanCheckPass
    \/ OrphanCheckAbort
    \/ Commit
    \/ CloseAndReturn
    \/ ExceptRollback
    \/ ExceptClose
    \/ \E v \in UserIdVals \cup {NULL} : WriterInsert(v)
    \/ \E i \in 1..MaxJaRows, v \in UserIdVals \cup {NULL} : WriterUpdate(i, v)
    \/ \E u \in UserIdVals : WriterDeleteUser(u)

SpecConcurrent == InitConcurrent /\ [][NextConcurrent]_vars

SchemaOf(s) == [s EXCEPT !.ja = << >>, !.users = {}, !.res = << >>]

\* C15 -- safety against the concurrent writer: in every committed state,
\* job_analysis.user_id is VARCHAR(255) only with no value longer than 255
\* and job_analysis_user_id_fkey exists only with no orphaned row; within
\* the run's transaction no such row is present once the type change,
\* respectively the ADD CONSTRAINT, has succeeded (a row that appeared after
\* the pre-check makes that statement fail); and a run that ends without a
\* commit has failed and leaves the committed schema as it was.
C15_ConcurrentWriterSafe ==
    /\ db.jaType = "varchar255" => ~HasLongRow(db)
    /\ "job_analysis_user_id_fkey" \in db.fks => OrphanRows(db) = {}
    /\ (InTransaction /\ failedAt = "none") =>
           /\ Ran("alter_job_analysis_user_id_type") => ~HasLongRow(tx)
           /\ Ran("add_job_analysis_user_id_fkey") => OrphanRows(tx) = {}
    /\ (fn = "fk" /\ commits = 0) => SchemaOf(db) = SchemaOf(pre)
    /\ (fn = "fk" /\ phase = "done" /\ commits = 0) =>
           (result = "False" /\ failedAt # "none" /\ tx = db)
    /\ (fn = "fk" /\ commits = 1) =>
           (db.jaType = "varchar255" /\ "job_analysis_user_id_fkey" \in db.fks)

\* C15 witness: the orphan check passed, the writer then deleted the
\* referenced users_sync row, the ADD CONSTRAINT was rejected and the run
\* has rolled back and returned False.
C15_Witness ==
    /\ fn = "fk" /\ phase = "done" /\ result = "False" /\ commits = 0
    /\ report.orphan_count = 0
    /\ failedAt = "add_job_analysis_user_id_fkey"
    /\ OrphanRows(db) # {}
    /\ db.jaType = "text" /\ SchemaOf(db) = SchemaOf(pre)

\* C21 -- all-or-nothing health-check migration: once
\* run_health_check_migration has committed, the committed database has the
\* resume_health_checks table, its four indexes and its trigger
\* update_resume_health_checks_updated_at together; a run that has not
\* committed leaves the committed database as it found it, never returns
\* True, and returns False whenever no error outside schema and data was
\* raised; on a database that had no such table, the table is never
\* committed without its indexes and its trigger.
C21_HealthCheckAllOrNothing ==
    fn = "hc" =>
        /\ commits > 0 =>
               /\ HcTable \in db.tables
               /\ HcIndexes \subseteq db.indexes
               /\ HcTrigger \in db.triggers
               /\ TriggerFunction \in pre.functions
        /\ commits = 0 =>
               /\ db = pre
               /\ result # "True"
               /\ (phase = "done" /\ ~envFault) => result = "False"
        /\ HcTable \notin pre.tables =>
               /\ HcTable \in db.tables <=> HcTrigger \in db.triggers
               /\ HcTable \in db.tables <=> HcIndexes \subseteq db.indexes
               /\ HcTable \notin db.tables => db.indexes \cap HcIndexes = {}
        /\ (failedAt = "create_trigger_resume_health_checks" /\ phase = "done") =>
               commits = 0

\* C21 witness: the table did not exist and update_updated_at_column is
\* missing; the table, the indexes and the comments were created in the
\* transaction, CREATE TRIGGER was rejected, and the run has rolled back and
\* returned False with none of them committed.
C21_Witness ==
    /\ fn = "hc" /\ phase = "done" /\ result = "False" /\ ~envFault
    /\ HcTable \notin pre.tables /\ TriggerFunction \notin pre.functions
    /\ failedAt = "create_trigger_resume_health_checks"
    /\ Ran("create_table_resume_health_checks")
    /\ Ran("idx_resume_health_checks_created_at")
    /\ HcTable \notin db.tables /\ db.indexes \cap HcIndexes = {}
    /\ conn = "closed"

====
